---- MODULE Spec2Model ----
(***************************************************************************)
(* A model of the ETK engine (src/etk/etk.py): construction with its      *)
(* error-policy selection and module loading, the process_ems loop over   *)
(* the extraction modules, and the parse_json_path cache.                 *)
(***************************************************************************)
EXTENDS Integers, Sequences, FiniteSets, TLC

(***************************************************************************)
(* Bounds of the model.                                                    *)
(***************************************************************************)
\* number of extraction-module classes that exist
NumModules == 3
\* largest number of entries os.listdir returns for a modules directory
MaxFiles == 3
\* largest number of kg writes one process_document call makes
MaxWrites == 2

VARIABLES
    pc,                     \* position of the engine's single caller
    modules,                \* the `modules` argument given to ETK.__init__
    extract_error_policy,   \* the `extract_error_policy` argument
    declared,               \* declared dependencies: <<a, b>> = a depends on b
    em_lst,                 \* self.em_lst (Undefined while the attribute is unset)
    error_policy,           \* self.error_policy
    error,                  \* the exception that left the last call, or "none"
    i,                      \* process_ems: index of a_em in self.em_lst
    w,                      \* writes the running process_document has made
    kg,                     \* doc.kg of the document being processed
    log,                    \* calls the engine made on the modules, in order
    doc,                    \* the Document given to process_ems (0: none yet)
    ret,                    \* what the last process_ems returned
    outcomes,               \* how each finished process_ems ended, in order
    built                   \* em_lst and error_policy as __init__ left them

engineVars == <<pc, modules, extract_error_policy, declared, em_lst,
                error_policy, error, i, w, kg, log, doc, ret, outcomes, built>>

VARIABLES
    workers,                \* the threads that call parse_json_path
    budget,                 \* calls they make in all
    parsed,                 \* self.parsed: query string -> compiled query
    wpc,                    \* where each thread stands in parse_json_path
    jsonpath,               \* the argument of each thread's call
    compiled,               \* the parser's result a thread is about to store
    result,                 \* how each thread's last call ended
    calls,                  \* calls each thread has started
    before,                 \* self.parsed as it was when the call started
    parses,                 \* how often self.parser was invoked, per string
    stored,                 \* every <<string, compiled query>> ever stored
    returned                \* every <<string, compiled query>> ever returned

pathVars == <<workers, budget, parsed, wpc, jsonpath, compiled, result, calls,
              before, parses, stored, returned>>

VARIABLES
    tpc,                    \* where the caller of the tokenizer stands
    text,                   \* the text given to Tokenizer.tokenize
    cuts,                   \* offsets where the upstream provider splits a run
    tokens,                 \* what tokenize returned
    rebuilt                 \* what reconstruct_text returned

tokVars == <<tpc, text, cuts, tokens, rebuilt>>

vars == <<engineVars, pathVars, tokVars>>

Undefined == "undefined"

(***************************************************************************)
(* Strings are sequences of characters, so that str.lower() is computed.   *)
(***************************************************************************)
UpperToLower ==
    "A" :> "a" @@ "C" :> "c" @@ "D" :> "d" @@ "E" :> "e" @@ "H" :> "h" @@
    "I" :> "i" @@ "M" :> "m" @@ "N" :> "n" @@ "O" :> "o" @@ "P" :> "p" @@
    "R" :> "r" @@ "S" :> "s" @@ "T" :> "t" @@ "U" :> "u" @@ "W" :> "w" @@
    "X" :> "x"

LowerChar(c) == IF c \in DOMAIN UpperToLower THEN UpperToLower[c] ELSE c

lower(s) == [k \in 1..Len(s) |-> LowerChar(s[k])]

S_process == <<"p","r","o","c","e","s","s">>
S_throw_extraction ==
    <<"t","h","r","o","w","_","e","x","t","r","a","c","t","i","o","n">>
S_throw_document ==
    <<"t","h","r","o","w","_","d","o","c","u","m","e","n","t">>
S_raise_error == <<"r","a","i","s","e","_","e","r","r","o","r">>

\* the selector strings the constructor is tried with
PolicyStrings ==
    { S_process, S_throw_extraction, S_throw_document, S_raise_error,
      <<"T","h","r","o","w","_","D","O","C","U","M","E","N","T">>,
      <<"s","k","i","p">> }

\* ETK.__init__, lines 26-33: three `if` statements, the `else` belongs to
\* the last one only
ErrorPolicyOf(s) ==
    LET p0 == Undefined
        p1 == IF lower(s) = S_throw_extraction THEN "THROW_EXTRACTION" ELSE p0
        p2 == IF lower(s) = S_throw_document THEN "THROW_DOCUMENT" ELSE p1
        p3 == IF lower(s) = S_raise_error THEN "RAISE" ELSE "PROCESS"
    IN  p3      \* the last `if` assigns on both branches: p2 is overwritten


(***************************************************************************)
(* Extraction modules, module files and the `modules` argument.            *)
(***************************************************************************)
Modules == 1..NumModules

\* a class whose constructor raises (ExampleETKModule reads a glossary file)
BadInit == 0

\* file_name.startswith("em_") and file_name.endswith(".py"), line 127
Matches(f) == f.em_prefix /\ f.py_suffix

File(pre, suf, imp, cls) ==
    [em_prefix |-> pre, py_suffix |-> suf, imports |-> imp, classes |-> cls]

Files ==
    { File(TRUE, TRUE, TRUE, <<m>>) : m \in Modules }      \* em_<m>.py
    \cup { File(TRUE, FALSE, TRUE, <<>>),                   \* em_notes.txt
           File(TRUE, TRUE, FALSE, <<>>),                   \* import fails
           File(TRUE, TRUE, TRUE, <<>>),                    \* no class of its own
           File(TRUE, TRUE, TRUE, <<BadInit>>) }            \* em(self) raises

Injective(s) == \A a, b \in 1..Len(s) : s[a] = s[b] => a = b

SeqsUpTo(S, n) == UNION { [1..k -> S] : k \in 0..n }

\* what os.listdir may return: distinct files in any order
Listings == { s \in SeqsUpTo(Files, MaxFiles) : Injective(s) }

Arg(kind, cls, exists, files) ==
    [kind |-> kind, cls |-> cls, exists |-> exists, files |-> files]

ModulesArgs ==
    { Arg("none", BadInit, FALSE, <<>>) }
    \cup { Arg("class", m, FALSE, <<>>) : m \in Modules }
    \cup { Arg("otherclass", BadInit, FALSE, <<>>) }
    \cup { Arg("path", BadInit, FALSE, <<>>) }
    \cup { Arg("path", BadInit, TRUE, l) : l \in Listings }

\* dependency declarations tried: none, 2 depends on 1, and a cycle
DepScenarios == { {}, {<<2, 1>>}, {<<2, 1>>, <<1, 2>>} }

Range(s) == { s[k] : k \in 1..Len(s) }

\* a depends on b, directly or through other modules of the list
RECURSIVE DependsWithin(_, _, _, _)
DependsWithin(a, b, S, n) ==
    \/ <<a, b>> \in declared /\ a \in S /\ b \in S
    \/ /\ n > 0
       /\ \E c \in S : <<a, c>> \in declared /\ a \in S
                       /\ DependsWithin(c, b, S, n - 1)

HasCycle(lst) ==
    \E a \in Range(lst) :
        DependsWithin(a, a, Range(lst), Cardinality(Range(lst)))

(***************************************************************************)
(* ETK.topological_sort and ETK.load_ems.                                  *)
(***************************************************************************)
\* lines 143-155: the body is the string "TODO" and `return lst`
topological_sort(lst) == lst

Ok(lst) == [ok |-> TRUE, lst |-> lst, err |-> "none"]
Err(e) == [ok |-> FALSE, lst |-> <<>>, err |-> e]

\* a slip: a file that fails to import is passed over
RECURSIVE Collect_skipping(_, _)
Collect_skipping(files, acc) ==
    IF files = <<>> THEN Ok(acc)
    ELSE LET f == Head(files) IN
         IF ~Matches(f) \/ ~f.imports THEN Collect_skipping(Tail(files), acc)
         ELSE IF BadInit \in Range(f.classes) THEN Err("NotGetETKModuleError")
         ELSE Collect_skipping(Tail(files), acc \o f.classes)

\* lines 126-130: the loop over the listing; any exception fails the load
RECURSIVE Collect(_, _)
Collect(files, acc) ==
    IF files = <<>> THEN Ok(acc)
    ELSE LET f == Head(files) IN
         IF ~Matches(f) THEN Collect(Tail(files), acc)
         ELSE IF ~f.imports THEN Err("NotGetETKModuleError")
         ELSE IF BadInit \in Range(f.classes) THEN Err("NotGetETKModuleError")
         ELSE Collect(Tail(files), acc \o f.classes)

\* lines 113-141
load_ems(dir) ==
    IF ~dir.exists THEN Err("NotGetETKModuleError")
    ELSE LET c == Collect(dir.files, <<>>) IN
         IF ~c.ok THEN c
         ELSE LET sorted == topological_sort(c.lst) IN
              IF sorted = <<>> THEN Err("NotGetETKModuleError")
              ELSE Ok(sorted)

\* lines 18-24: what the constructor does with `modules`
InitModules(m) ==
    CASE m.kind = "none" -> Ok(Undefined)
      [] m.kind = "path" -> load_ems(m)
      [] m.kind = "class" -> Ok(<<m.cls>>)
      [] OTHER -> Err("NotGetETKModuleError")


(***************************************************************************)
(* ETK.parse_json_path, lines 49-67, and its cache self.parsed.            *)
(***************************************************************************)
\* threads that call parse_json_path on one engine at the same time
NumWorkers == 2
\* calls these threads make in all
MaxCalls == 3
\* calls a single caller makes one after the other
MaxSeqCalls == 3

Fields == {"projects", "members"}

Q_projects == <<"projects", "[*]">>
Q_members == <<"projects", "[*]", ".", "members", "[*]">>
Q_dangling == <<"projects", "[*]", ".">>
Q_empty == <<>>

\* the query strings parse_json_path is tried with
Queries == {Q_projects, Q_members, Q_dangling, Q_empty}

\* the strings jsonpath_ng.parse accepts: a field, then `.field` or `[*]` steps
Valid(q) ==
    /\ Len(q) > 0
    /\ q[1] \in Fields
    /\ \A k \in 2..Len(q) :
         CASE q[k] = "." -> k < Len(q) /\ q[k + 1] \in Fields
           [] q[k] = "[*]" -> q[k - 1] # "."
           [] OTHER -> q[k - 1] = "."

NoValue == [query |-> <<>>, obj |-> 0]

\* line 13, self.parser = jsonpath_ng.parse: the n-th invocation on q gives a
\* new object that is the compilation of q, or raises
parser(q, n) ==
    IF Valid(q) THEN [ok |-> TRUE, value |-> [query |-> q, obj |-> n]]
    ELSE [ok |-> FALSE, value |-> NoValue]

\* line 16: self.parsed = dict()
EmptyDict == [k \in {} |-> NoValue]

\* a slip: the store replaces the dict by one that holds the new entry only
StoreInto_forgetting(d, k, v) == [x \in {k} |-> v]

\* line 63: self.parsed[jsonpath] = ...
StoreInto(d, k, v) == [x \in DOMAIN d \cup {k} |-> IF x = k THEN v ELSE d[x]]

\* a slip: the test is skipped and the string is taken to be cached
NeedsParse_never(d, q) == FALSE

\* line 61: if jsonpath not in self.parsed
NeedsParse(d, q) == q \notin DOMAIN d

\* a slip: the failure is cached, the next call finds an entry for q
OnParseError_cached(d, q) == StoreInto(d, q, NoValue)

\* lines 63-65: the parser raised before the store, self.parsed is untouched
OnParseError(d, q) == d

Result(kind, value) == [kind |-> kind, value |-> value]

NoResult == Result("none", NoValue)

AllWorkers == 1..NumWorkers

PathIdle ==
    /\ parsed = EmptyDict
    /\ wpc = [x \in AllWorkers |-> "idle"]
    /\ jsonpath = [x \in AllWorkers |-> Q_empty]
    /\ compiled = [x \in AllWorkers |-> NoValue]
    /\ result = [x \in AllWorkers |-> NoResult]
    /\ calls = [x \in AllWorkers |-> 0]
    /\ before = [x \in AllWorkers |-> EmptyDict]
    /\ parses = [q \in Queries |-> 0]
    /\ stored = {}
    /\ returned = {}

\* calls started so far by the threads 1..n
RECURSIVE CallsStarted(_)
CallsStarted(n) == IF n = 0 THEN 0 ELSE calls[n] + CallsStarted(n - 1)

\* a caller enters parse_json_path(jsonpath)
parse_json_path_call ==
    /\ \E x \in workers, q \in Queries :
         /\ wpc[x] = "idle"
         /\ CallsStarted(NumWorkers) < budget
         /\ wpc' = [wpc EXCEPT ![x] = "test"]
         /\ jsonpath' = [jsonpath EXCEPT ![x] = q]
         /\ calls' = [calls EXCEPT ![x] = @ + 1]
         /\ result' = [result EXCEPT ![x] = NoResult]
         /\ before' = [before EXCEPT ![x] = parsed]
    /\ UNCHANGED <<workers, budget, parsed, compiled, parses, stored, returned>>
    /\ UNCHANGED engineVars
    /\ UNCHANGED tokVars

\* line 61
membership_test ==
    /\ \E x \in workers :
         /\ wpc[x] = "test"
         /\ wpc' = [wpc EXCEPT ![x] =
                IF NeedsParse(parsed, jsonpath[x]) THEN "parse" ELSE "read"]
    /\ UNCHANGED <<workers, budget, parsed, jsonpath, compiled, result, calls,
                   before, parses, stored, returned>>
    /\ UNCHANGED engineVars
    /\ UNCHANGED tokVars

\* line 63, right-hand side, and lines 64-65 when the parser raises
parse ==
    /\ \E x \in workers :
         LET q == jsonpath[x]
             r == parser(q, parses[q] + 1)
         IN  /\ wpc[x] = "parse"
             /\ parses' = [parses EXCEPT ![q] = @ + 1]
             /\ IF r.ok
                THEN /\ compiled' = [compiled EXCEPT ![x] = r.value]
                     /\ wpc' = [wpc EXCEPT ![x] = "store"]
                     /\ UNCHANGED <<parsed, result>>
                ELSE /\ parsed' = OnParseError(parsed, q)
                     /\ result' = [result EXCEPT ![x] =
                            Result("InvalidJsonPathError", NoValue)]
                     /\ wpc' = [wpc EXCEPT ![x] = "idle"]
                     /\ UNCHANGED compiled
    /\ UNCHANGED <<workers, budget, jsonpath, calls, before, stored, returned>>
    /\ UNCHANGED engineVars
    /\ UNCHANGED tokVars

\* line 63, the store
store ==
    /\ \E x \in workers :
         /\ wpc[x] = "store"
         /\ parsed' = StoreInto(parsed, jsonpath[x], compiled[x])
         /\ stored' = stored \cup {<<jsonpath[x], compiled[x]>>}
         /\ wpc' = [wpc EXCEPT ![x] = "read"]
    /\ UNCHANGED <<workers, budget, jsonpath, compiled, result, calls, before,
                   parses, returned>>
    /\ UNCHANGED engineVars
    /\ UNCHANGED tokVars

\* line 67: return self.parsed[jsonpath]
read ==
    /\ \E x \in workers :
         LET q == jsonpath[x] IN
         /\ wpc[x] = "read"
         /\ wpc' = [wpc EXCEPT ![x] = "idle"]
         /\ IF q \in DOMAIN parsed
            THEN /\ result' = [result EXCEPT ![x] = Result("value", parsed[q])]
                 /\ returned' = returned \cup {<<q, parsed[q]>>}
            ELSE /\ result' = [result EXCEPT ![x] = Result("KeyError", NoValue)]
                 /\ UNCHANGED returned
    /\ UNCHANGED <<workers, budget, parsed, jsonpath, compiled, calls, before,
                   parses, stored>>
    /\ UNCHANGED engineVars
    /\ UNCHANGED tokVars

NextPath ==
    \/ parse_json_path_call
    \/ membership_test
    \/ parse
    \/ store
    \/ read

(***************************************************************************)
(* The tokenizer (etk2 Tokenizer, exercised by unit_tests/test_tokenizer). *)
(* A text is a sequence of characters.  Where a run of characters is split *)
(* further is the upstream provider's choice: `cuts`.                      *)
(***************************************************************************)
\* longest text tried, besides the text of the unit test
MaxTextLen == 3

Alphabet == {"a", "3", ".", " ", "\n"}

Letters == {"a", "d", "e", "i", "s", "u"}

Digits == {"1", "2", "3", "4", "5", "6", "7", "8", "9"}

IsSpace(c) == c \in {" ", "\n"}

\* test_tokenizer, line 8
TestText ==
    <<"d","s","a","@","i","s","i",".","e","d","u"," ","3","2",".","4"," ",
      "-","3","2",".","1"," ","(","1","2","3",")","-","3","4","5","-",
      "6","7","8","9",","," ","\n"," ","\n"," "," "," ">>

\* where the provider splits the runs of that text (offsets of lines 16-33
\* that are not the start of a run)
TestCuts == {3, 4, 7, 8, 18, 24, 27, 28, 29, 32, 33, 41, 42}

Attr(orth, offset, shape) ==
    [orth |-> orth, offset |-> offset, full_shape |-> shape]

\* test_tokenizer, lines 15-34
TestExpected ==
    << Attr(<<"d","s","a">>, 0, <<"x","x","x">>),
       Attr(<<"@">>, 3, <<"@">>),
       Attr(<<"i","s","i">>, 4, <<"x","x","x">>),
       Attr(<<".">>, 7, <<".">>),
       Attr(<<"e","d","u">>, 8, <<"x","x","x">>),
       Attr(<<"3","2",".","4">>, 12, <<"d","d",".","d">>),
       Attr(<<"-">>, 17, <<"-">>),
       Attr(<<"3","2",".","1">>, 18, <<"d","d",".","d">>),
       Attr(<<"(">>, 23, <<"(">>),
       Attr(<<"1","2","3">>, 24, <<"d","d","d">>),
       Attr(<<")">>, 27, <<")">>),
       Attr(<<"-">>, 28, <<"-">>),
       Attr(<<"3","4","5">>, 29, <<"d","d","d">>),
       Attr(<<"-">>, 32, <<"-">>),
       Attr(<<"6","7","8","9",",">>, 33, <<"d","d","d","d",",">>),
       Attr(<<"\n"," ">>, 39, <<"\n"," ">>),
       Attr(<<"\n">>, 41, <<"\n">>),
       Attr(<<" "," "," ">>, 42, <<" "," "," ">>) >>

\* the worked example "32.4 -32.1", a part of the text of line 8
ExampleText == SubSeq(TestText, 13, 22)

ExampleCuts == {6}

\* the texts tokenize is tried with
Texts == SeqsUpTo(Alphabet, MaxTextLen) \cup {TestText, ExampleText}

CutsFor(t) ==
    CASE t = TestText -> {TestCuts}
      [] t = ExampleText -> {ExampleCuts}
      [] OTHER -> SUBSET (1..(Len(t) - 1))

\* the character at offset o is a single space right after a token that is
\* not whitespace: the token carries it, it is no token of its own
Skipped(t, o) == o >= 1 /\ t[o + 1] = " " /\ ~IsSpace(t[o])

\* a token starts at offset o
StartsAt(t, c, o) ==
    /\ ~Skipped(t, o)
    /\ \/ o = 0
       \/ Skipped(t, o - 1)
       \/ IsSpace(t[o]) # IsSpace(t[o + 1])
       \/ o \in c

\* the offset right after the token that starts at s
EndOf(t, c, s) ==
    CHOOSE e \in (s + 1)..Len(t) :
        /\ e = Len(t) \/ StartsAt(t, c, e) \/ Skipped(t, e)
        /\ \A f \in (s + 1)..(e - 1) : ~(StartsAt(t, c, f) \/ Skipped(t, f))

ShapeChar(ch) ==
    IF ch \in Letters THEN "x" ELSE IF ch \in Digits THEN "d" ELSE ch

Shape(orth) == [k \in 1..Len(orth) |-> ShapeChar(orth[k])]

\* a slip: offsets counted from 1
TokenIdx_fromOne(t, s) == s + 1

\* the offset of a token is its start in the text, counted from 0
TokenIdx(t, s) == s

Token(t, c, s) ==
    LET e == EndOf(t, c, s)
        orth == SubSeq(t, s + 1, e)
    IN  [orth |-> orth,
         idx |-> TokenIdx(t, s),
         whitespace |-> IF e < Len(t) /\ Skipped(t, e) THEN <<" ">> ELSE <<>>,
         full_shape |-> Shape(orth)]

RECURSIVE TokensFrom(_, _, _)
TokensFrom(t, c, o) ==
    IF o >= Len(t) THEN <<>>
    ELSE IF StartsAt(t, c, o) THEN <<Token(t, c, o)>> \o TokensFrom(t, c, o + 1)
    ELSE TokensFrom(t, c, o + 1)

\* Tokenizer.tokenize
tokenize(t, c) == TokensFrom(t, c, 0)

\* a slip: the texts of the tokens are joined without their whitespace
RECURSIVE reconstruct_text_bare(_)
reconstruct_text_bare(toks) ==
    IF toks = <<>> THEN <<>>
    ELSE Head(toks).orth \o reconstruct_text_bare(Tail(toks))

\* Tokenizer.reconstruct_text: each token's text with its trailing whitespace
RECURSIVE reconstruct_text(_)
reconstruct_text(toks) ==
    IF toks = <<>> THEN <<>>
    ELSE Head(toks).orth \o Head(toks).whitespace
             \o reconstruct_text(Tail(toks))

TokIdle ==
    /\ tpc = "off"
    /\ text = <<>>
    /\ cuts = {}
    /\ tokens = <<>>
    /\ rebuilt = <<>>

\* test_tokenizer, line 10: tokens = t.tokenize(text)
tokenize_call ==
    /\ tpc = "start"
    /\ tokens' = tokenize(text, cuts)
    /\ tpc' = "tokenized"
    /\ UNCHANGED <<text, cuts, rebuilt>>
    /\ UNCHANGED engineVars
    /\ UNCHANGED pathVars

\* test_tokenizer, line 37: t.reconstruct_text(tokens)
reconstruct_text_call ==
    /\ tpc = "tokenized"
    /\ rebuilt' = reconstruct_text(tokens)
    /\ tpc' = "reconstructed"
    /\ UNCHANGED <<text, cuts, tokens>>
    /\ UNCHANGED engineVars
    /\ UNCHANGED pathVars

NextTok ==
    \/ tokenize_call
    \/ reconstruct_text_call

(***************************************************************************)
(* The constructor.                                                        *)
(***************************************************************************)
NoReturn == [doc |-> 0, kg |-> <<>>]

\* no document has been given to process_ems yet
NoDocument ==
    /\ doc = 0
    /\ ret = NoReturn
    /\ outcomes = <<>>

\* what __init__ has left in the engine (lines 18-33)
Built(lst, policy) == [em_lst |-> lst, error_policy |-> policy]

Init ==
    /\ pc = "new"
    /\ modules = Arg("none", BadInit, FALSE, <<>>)
    /\ extract_error_policy = S_process
    /\ declared \in DepScenarios
    /\ em_lst = Undefined
    /\ error_policy = Undefined
    /\ error = "none"
    /\ i = 0
    /\ w = 0
    /\ kg = <<>>
    /\ log = <<>>
    /\ NoDocument
    /\ built = Undefined
    /\ workers = {}
    /\ budget = 0
    /\ PathIdle
    /\ TokIdle

\* ETK.__init__, lines 12-33
ETK_init ==
    /\ UNCHANGED pathVars
    /\ UNCHANGED tokVars
    /\ pc = "new"
    /\ \E m \in ModulesArgs, s \in PolicyStrings :
         LET r == InitModules(m) IN
         /\ modules' = m
         /\ extract_error_policy' = s
         /\ IF r.ok
            THEN /\ pc' = "ready"
                 /\ em_lst' = r.lst
                 /\ error_policy' = ErrorPolicyOf(s)
                 /\ error' = "none"
                 /\ built' = Built(r.lst, ErrorPolicyOf(s))
            ELSE /\ pc' = "init_raised"
                 /\ error' = r.err
                 /\ UNCHANGED <<em_lst, error_policy, built>>
    /\ UNCHANGED <<declared, i, w, kg, log, doc, ret, outcomes>>

(***************************************************************************)
(* ETK.process_ems, lines 69-83.  A module is code of the engine's user:   *)
(* its selector answers either way, and its process_document writes some   *)
(* values to doc.kg and then returns or raises.                            *)
(***************************************************************************)
Event(op, idx, res) == [op |-> op, em |-> idx, res |-> res]

\* a slip: the next document is given the graph of the one before it
NewDocumentKg_shared(old) == old

\* create_document, line 47: each Document is made anew, with its own kg
NewDocumentKg(old) == <<>>

\* line 79: the `for` statement takes the next module or leaves the loop
Enter ==
    /\ UNCHANGED pathVars
    /\ UNCHANGED tokVars
    /\ IF em_lst = Undefined
       THEN /\ pc' = "raised"
            /\ error' = "AttributeError"
            /\ outcomes' = Append(outcomes, "raised")
       ELSE /\ pc' = "loop"
            /\ error' = "none"
            /\ UNCHANGED outcomes
    /\ i' = 1
    /\ w' = 0
    /\ doc' = doc + 1
    /\ kg' = NewDocumentKg(kg)
    /\ log' = <<>>
    /\ ret' = NoReturn
    /\ UNCHANGED <<modules, extract_error_policy, declared, em_lst,
                   error_policy, built>>

\* the first process_ems on the engine
process_ems_call ==
    /\ pc = "ready"
    /\ Enter

\* a slip: process_document is called whatever the selector answered
AfterSelector_unguarded(b) == [pc |-> "selected", i |-> i]

\* lines 79-81: once document_selector has answered, the loop calls
\* process_document of this module or goes on to the next module
AfterSelector(b) ==
    IF b THEN [pc |-> "selected", i |-> i] ELSE [pc |-> "loop", i |-> i + 1]

document_selector ==
    /\ UNCHANGED pathVars
    /\ UNCHANGED tokVars
    /\ pc = "loop"
    /\ i <= Len(em_lst)
    /\ \E b \in BOOLEAN :
         /\ log' = Append(log, Event("document_selector", i, b))
         /\ pc' = AfterSelector(b).pc
         /\ i' = AfterSelector(b).i
    /\ UNCHANGED <<modules, extract_error_policy, declared, em_lst,
                   error_policy, error, w, kg, doc, ret, outcomes, built>>

\* line 81: the call of a_em.process_document(doc)
process_document_call ==
    /\ UNCHANGED pathVars
    /\ UNCHANGED tokVars
    /\ pc = "selected"
    /\ pc' = "in_module"
    /\ w' = 0
    /\ log' = Append(log, Event("process_document", i, TRUE))
    /\ UNCHANGED <<modules, extract_error_policy, declared, em_lst,
                   error_policy, error, i, kg, doc, ret, outcomes, built>>

\* the module adds a value to doc.kg (create_kg.py, line 33)
module_write ==
    /\ UNCHANGED pathVars
    /\ UNCHANGED tokVars
    /\ pc = "in_module"
    /\ w < MaxWrites
    /\ w' = w + 1
    /\ kg' = Append(kg, <<em_lst[i], w + 1, doc>>)
    /\ log' = Append(log, Event("write", i, <<em_lst[i], w + 1, doc>>))
    /\ UNCHANGED <<pc, modules, extract_error_policy, declared, em_lst,
                   error_policy, error, i, doc, ret, outcomes, built>>

\* the module's process_document returns (create_kg.py, line 34)
module_return ==
    /\ UNCHANGED pathVars
    /\ UNCHANGED tokVars
    /\ pc = "in_module"
    /\ pc' = "loop"
    /\ i' = i + 1
    /\ log' = Append(log, Event("returned", i, TRUE))
    /\ UNCHANGED <<modules, extract_error_policy, declared, em_lst,
                   error_policy, error, w, kg, doc, ret, outcomes, built>>

\* a slip: a handler in the loop swallows the exception and goes on
AfterRaise_swallowed(policy) == "loop"

\* a slip: a handler puts doc.kg back as it was when the module was called
KgAfterRaise_rollback(atCall, now) == atCall

\* lines 79-81 stand in no try statement: an exception of the module leaves
\* process_ems whatever self.error_policy is
AfterRaise(policy) == "raised"

\* lines 79-81: nothing is done to doc.kg when the module raises
KgAfterRaise(atCall, now) == now

\* the kg as it was when the running module was called
KgAtCall == SubSeq(kg, 1, Len(kg) - w)

module_raise ==
    /\ UNCHANGED pathVars
    /\ UNCHANGED tokVars
    /\ pc = "in_module"
    /\ pc' = AfterRaise(error_policy)
    /\ i' = IF pc' = "loop" THEN i + 1 ELSE i
    /\ error' = IF pc' = "loop" THEN error ELSE "ModuleError"
    /\ kg' = KgAfterRaise(KgAtCall, kg)
    /\ log' = Append(log, Event("raised", i, TRUE))
    /\ outcomes' = IF pc' = "loop" THEN outcomes
                   ELSE Append(outcomes, "raised")
    /\ UNCHANGED <<modules, extract_error_policy, declared, em_lst,
                   error_policy, w, doc, ret, built>>

\* a slip: a graph of the engine's own is returned, not the document's
ReturnValue_other(d, g) == [doc |-> d, kg |-> <<>>]

\* line 83: the pair of the document given and of its kg
ReturnValue(d, g) == [doc |-> d, kg |-> g]

\* line 83: return doc, doc.kg
process_ems_return ==
    /\ UNCHANGED pathVars
    /\ UNCHANGED tokVars
    /\ pc = "loop"
    /\ i > Len(em_lst)
    /\ pc' = "returned"
    /\ ret' = ReturnValue(doc, kg)
    /\ outcomes' = Append(outcomes, "returned")
    /\ UNCHANGED <<modules, extract_error_policy, declared, em_lst,
                   error_policy, error, i, w, kg, log, doc, built>>

Next ==
    \/ ETK_init
    \/ process_ems_call
    \/ document_selector
    \/ process_document_call
    \/ module_write
    \/ module_return
    \/ module_raise
    \/ process_ems_return

Spec == Init /\ [][Next]_vars

(***************************************************************************)
(* parse_json_path on an engine built by ETK(): one caller making its      *)
(* calls one after the other, and several threads calling at once.         *)
(***************************************************************************)
\* the engine after ETK() with the default arguments, lines 12-33
DefaultEngine ==
    /\ pc = "ready"
    /\ modules = Arg("none", BadInit, FALSE, <<>>)
    /\ extract_error_policy = S_process
    /\ declared = {}
    /\ em_lst = Undefined
    /\ error_policy = ErrorPolicyOf(S_process)
    /\ error = "none"
    /\ i = 0
    /\ w = 0
    /\ kg = <<>>
    /\ log = <<>>
    /\ NoDocument
    /\ built = Built(Undefined, ErrorPolicyOf(S_process))

InitSeq ==
    /\ DefaultEngine
    /\ workers = {1}
    /\ budget = MaxSeqCalls
    /\ PathIdle
    /\ TokIdle

InitConc ==
    /\ DefaultEngine
    /\ workers = AllWorkers
    /\ budget = MaxCalls
    /\ PathIdle
    /\ TokIdle

SpecSeq == InitSeq /\ [][NextPath]_vars

SpecConc == InitConc /\ [][NextPath]_vars

\* the tokenizer on every text up to MaxTextLen and on the unit test's text
InitTok ==
    /\ DefaultEngine
    /\ workers = {}
    /\ budget = 0
    /\ PathIdle
    /\ tpc = "start"
    /\ text \in Texts
    /\ cuts \in CutsFor(text)
    /\ tokens = <<>>
    /\ rebuilt = <<>>

SpecTok == InitTok /\ [][NextTok]_vars

(***************************************************************************)
(* One engine given several documents, one after the other.  The modules   *)
(* select segments of the document, which takes them through               *)
(* parse_json_path and the engine's cache.                                  *)
(***************************************************************************)
\* documents given to one engine
MaxDocs == 2

\* the paths the modules select with: one that compiles and one that does not
ModuleQueries == {Q_projects, Q_dangling}

\* a directory that holds the module files em_1.py .. em_n.py
ModuleDir(n) ==
    Arg("path", BadInit, TRUE, [k \in 1..n |-> File(TRUE, TRUE, TRUE, <<k>>)])

\* the engines ETK(modules=<such a directory>, extract_error_policy=s) builds
InitDocs ==
    /\ pc = "ready"
    /\ \E n \in 1..(IF MaxFiles < NumModules THEN MaxFiles ELSE NumModules) :
          modules = ModuleDir(n)
    /\ extract_error_policy \in {S_process, S_raise_error}
    /\ declared = {}
    /\ em_lst = InitModules(modules).lst
    /\ error_policy = ErrorPolicyOf(extract_error_policy)
    /\ error = "none"
    /\ i = 0
    /\ w = 0
    /\ kg = <<>>
    /\ log = <<>>
    /\ NoDocument
    /\ built = Built(em_lst, error_policy)
    /\ workers = {}
    /\ budget = 0
    /\ PathIdle
    /\ TokIdle

\* process_ems is called again, with the next document
process_ems_next ==
    /\ pc \in {"returned", "raised"}
    /\ doc < MaxDocs
    /\ Enter

\* the running module selects segments before it writes: select_segments
\* (create_kg.py, lines 26-27) asks parse_json_path, lines 49-67, for the
\* compiled path, and InvalidJsonPathError leaves the module and process_ems
module_select ==
    /\ UNCHANGED tokVars
    /\ pc = "in_module"
    /\ w = 0
    /\ \E q \in ModuleQueries :
         IF NeedsParse(parsed, q)
         THEN LET r == parser(q, parses[q] + 1) IN
              /\ parses' = [parses EXCEPT ![q] = @ + 1]
              /\ IF r.ok
                 THEN /\ parsed' = StoreInto(parsed, q, r.value)
                      /\ stored' = stored \cup {<<q, r.value>>}
                      /\ returned' = returned \cup {<<q, r.value>>}
                      /\ UNCHANGED <<pc, error, log, outcomes>>
                 ELSE /\ parsed' = OnParseError(parsed, q)
                      /\ pc' = AfterRaise(error_policy)
                      /\ error' = "InvalidJsonPathError"
                      /\ log' = Append(log, Event("raised", i, TRUE))
                      /\ outcomes' = Append(outcomes, "raised")
                      /\ UNCHANGED <<stored, returned>>
         ELSE /\ returned' = returned \cup {<<q, parsed[q]>>}
              /\ UNCHANGED <<parsed, parses, stored, pc, error, log, outcomes>>
    /\ UNCHANGED <<workers, budget, wpc, jsonpath, compiled, result, calls,
                   before>>
    /\ UNCHANGED <<modules, extract_error_policy, declared, em_lst,
                   error_policy, i, w, kg, doc, ret, built>>

NextDocs ==
    \/ process_ems_call
    \/ process_ems_next
    \/ document_selector
    \/ process_document_call
    \/ module_select
    \/ module_write
    \/ module_return
    \/ module_raise
    \/ process_ems_return

SpecDocs == InitDocs /\ [][NextDocs]_vars


(***************************************************************************)
(* Reading the log.                                                        *)
(***************************************************************************)
IsOp(e, op) == e.op = op

Positions(op) == { p \in 1..Len(log) : IsOp(log[p], op) }

PositionsOf(op, idx) == { p \in Positions(op) : log[p].em = idx }

IsSelector(e) == IsOp(e, "document_selector")

IsWrite(e) == IsOp(e, "write")

\* the list positions whose selector was asked, in the order of the calls
SelectorOrder ==
    LET s == SelectSeq(log, IsSelector) IN [k \in 1..Len(s) |-> s[k].em]

\* the values the modules wrote, in the order of the writes
WritesLogged ==
    LET s == SelectSeq(log, IsWrite) IN [k \in 1..Len(s) |-> s[k].res]

\* the position in em_lst of the module that wrote v
PosOf(v) == CHOOSE k \in 1..Len(em_lst) : em_lst[k] = v[1]

\* the list position of the module whose process_document raised
Failed == { log[p].em : p \in Positions("raised") }

Constructed == pc \notin {"new", "init_raised"}

(***************************************************************************)
(* C1.  The selector string decides the policy: "throw_extraction",        *)
(* "throw_document", "raise_error" and "process", in any case, select      *)
(* THROW_EXTRACTION, THROW_DOCUMENT, RAISE and PROCESS, and every other    *)
(* string selects PROCESS.  The constructor does not do this.              *)
(***************************************************************************)
C1_PolicyOfSelector ==
    Constructed =>
        error_policy =
            CASE lower(extract_error_policy) = S_throw_extraction
                    -> "THROW_EXTRACTION"
              [] lower(extract_error_policy) = S_throw_document
                    -> "THROW_DOCUMENT"
              [] lower(extract_error_policy) = S_raise_error -> "RAISE"
              [] OTHER -> "PROCESS"

(***************************************************************************)
(* C2.  When module 2 is declared dependent on module 1 (and not the other *)
(* way round), process_document of module 1 is called before               *)
(* process_document of module 2 whatever the order of registration.  The   *)
(* pass-through topological_sort does not give this.                       *)
(***************************************************************************)
C2_DependentRunsAfter ==
    (declared = {<<2, 1>>} /\ em_lst # Undefined) =>
        \A p, q \in Positions("process_document") :
            (em_lst[log[p].em] = 1 /\ em_lst[log[q].em] = 2) => p < q

(***************************************************************************)
(* C3.  A cycle among the declared dependencies of the loaded modules      *)
(* makes load_ems fail, so no engine is ever constructed with a cyclic     *)
(* module list.  The pass-through topological_sort reports no cycle.       *)
(***************************************************************************)
C3_CycleIsLoadError ==
    (Constructed /\ em_lst # Undefined) => ~HasCycle(em_lst)

(***************************************************************************)
(* C4.  A process_ems call that returns has asked the selector of every    *)
(* module exactly once, in list order; it has called process_document      *)
(* exactly once for the modules whose selector answered true and never for *)
(* the others; and it asked the selector of a module only after the        *)
(* process_document of the module before it had returned.                  *)
(***************************************************************************)
C4_SequentialSelectThenProcess ==
    pc = "returned" =>
        /\ SelectorOrder = [k \in 1..Len(em_lst) |-> k]
        /\ \A p \in Positions("document_selector") :
              Cardinality(PositionsOf("process_document", log[p].em))
                  = IF log[p].res THEN 1 ELSE 0
        /\ \A p \in Positions("process_document") :
              \E s \in PositionsOf("document_selector", log[p].em) : s < p
        /\ \A p \in Positions("process_document") :
              \A q \in PositionsOf("document_selector", log[p].em + 1) :
                  \E r \in PositionsOf("returned", log[p].em) : p < r /\ r < q

C4_Witness ==
    /\ pc = "returned"
    /\ Len(em_lst) >= 2
    /\ \E p, q \in Positions("document_selector") : log[p].res /\ ~log[q].res
    /\ kg # <<>>


(***************************************************************************)
(* C5, as stated: on an engine configured with "throw_document", when     *)
(* the module at position k raises in process_document, process_ems        *)
(* raises, no module after k is asked or called, and doc.kg holds only     *)
(* writes of the modules before k.  The last part fails when module k      *)
(* itself wrote before it raised.                                          *)
(***************************************************************************)
ThrowDocumentConfigured == lower(extract_error_policy) = S_throw_document

C5_OnlyWritesBeforeFailed ==
    \A k \in Failed :
        ThrowDocumentConfigured =>
            /\ pc = "raised"
            /\ \A p \in 1..Len(log) : log[p].em <= k
            /\ \A n \in 1..Len(kg) : PosOf(kg[n]) < k

(***************************************************************************)
(* C5, amended.  On an engine configured with "throw_document", when the   *)
(* module at position k raises in process_document, process_ems raises,    *)
(* no module after k is asked or called, and doc.kg holds exactly the      *)
(* writes made up to the raise: those of the modules before k, followed by *)
(* what module k wrote before it raised.                                   *)
(***************************************************************************)
C5_AbortKeepsWritesUpToRaise ==
    \A k \in Failed :
        ThrowDocumentConfigured =>
            /\ pc = "raised"
            /\ \A p \in 1..Len(log) : log[p].em <= k
            /\ \A n \in 1..Len(kg) : PosOf(kg[n]) <= k
            /\ kg = WritesLogged

C5_Witness ==
    /\ ThrowDocumentConfigured
    /\ pc = "raised"
    /\ \E k \in Failed :
          /\ 1 < k
          /\ k < Len(em_lst)
          /\ \E n \in 1..Len(kg) : PosOf(kg[n]) < k

(***************************************************************************)
(* C6.  Under the policies PROCESS and THROW_EXTRACTION an exception of a  *)
(* module does not leave process_ems: the later modules still run and the  *)
(* call returns.  process_ems has no handler, so the exception leaves it.  *)
(***************************************************************************)
C6_PolicyContinuesAfterRaise ==
    (error_policy \in {"PROCESS", "THROW_EXTRACTION"} /\ Failed # {}) =>
        pc # "raised"

(***************************************************************************)
(* C7.  No rollback: at every moment of a process_ems call, and when it    *)
(* has ended by returning or by raising, doc.kg holds every value the      *)
(* modules wrote so far, in the order of the writes.                       *)
(***************************************************************************)
C7_NoRollback == kg = WritesLogged

C7_Witness ==
    /\ pc = "raised"
    /\ \E k \in Failed :
          /\ \E n \in 1..Len(kg) : PosOf(kg[n]) < k
          /\ \E n \in 1..Len(kg) : PosOf(kg[n]) = k

(***************************************************************************)
(* Reading the state of the parse_json_path callers.                       *)
(***************************************************************************)
\* caller x has made a call and is back from it
Back(x) == wpc[x] = "idle" /\ calls[x] > 0

AllFinished ==
    /\ \A x \in workers : wpc[x] = "idle"
    /\ CallsStarted(NumWorkers) = budget

(***************************************************************************)
(* C8.  For a single caller: every call with an invalid string raises      *)
(* InvalidJsonPathError, on the first attempt and on every later one,      *)
(* whatever was compiled in between; self.parsed never holds an entry for  *)
(* an invalid string, and the failed call leaves self.parsed as it was.    *)
(***************************************************************************)
C8_InvalidPathAlwaysRaises ==
    /\ \A q \in DOMAIN parsed : Valid(q)
    /\ \A x \in workers :
         (Back(x) /\ ~Valid(jsonpath[x])) =>
             /\ result[x].kind = "InvalidJsonPathError"
             /\ parsed = before[x]

C8_Witness ==
    /\ Back(1)
    /\ jsonpath[1] = Q_dangling
    /\ result[1].kind = "InvalidJsonPathError"
    /\ parses[Q_dangling] >= 2
    /\ DOMAIN parsed # {}

(***************************************************************************)
(* C9.  For a single caller: the parser is invoked at most once for each   *)
(* valid string; an entry of self.parsed, once stored, is never removed    *)
(* or replaced; the entry under s is the compilation of s; and every call  *)
(* with s returns that one stored object.                                  *)
(***************************************************************************)
C9_ParsedOnceAndKept ==
    /\ \A q \in Queries : Valid(q) => parses[q] <= 1
    /\ \A e \in stored : e[1] \in DOMAIN parsed /\ parsed[e[1]] = e[2]
    /\ \A q \in DOMAIN parsed : parsed[q].query = q
    /\ \A r \in returned : r \in stored
    /\ \A x \in workers :
         (Back(x) /\ Valid(jsonpath[x])) =>
             result[x] = Result("value", parsed[jsonpath[x]])

C9_Witness ==
    /\ Back(1)
    /\ calls[1] = MaxSeqCalls
    /\ result[1].kind = "value"
    /\ DOMAIN parsed = {jsonpath[1]}
    /\ \A q \in Queries : parses[q] = IF q = jsonpath[1] THEN 1 ELSE 0

(***************************************************************************)
(* C10.  For threads calling at once, in every interleaving of the test,   *)
(* the parse, the store and the final read: a call with a valid string     *)
(* returns a compilation of that string and never fails on a missing key;  *)
(* every compilation ever stored under a string is a compilation of that   *)
(* string; and when all calls are over, self.parsed holds under each       *)
(* string that was returned one compilation of it.                         *)
(***************************************************************************)
C10_ConcurrentCallsReturnOwnQuery ==
    /\ \A x \in workers : result[x].kind # "KeyError"
    /\ \A x \in workers :
         (Back(x) /\ Valid(jsonpath[x])) =>
             /\ result[x].kind = "value"
             /\ result[x].value.query = jsonpath[x]
    /\ \A e \in stored \cup returned : Valid(e[1]) /\ e[2].query = e[1]
    /\ AllFinished =>
         \A r \in returned :
             /\ r[1] \in DOMAIN parsed
             /\ <<r[1], parsed[r[1]]>> \in stored

\* two threads parsed the same string, and each was returned its own object
C10_Witness ==
    /\ AllFinished
    /\ parses[Q_members] = 2
    /\ \E a, b \in returned :
         a[1] = Q_members /\ b[1] = Q_members /\ a[2] # b[2]

(***************************************************************************)
(* Reading the tokens.                                                     *)
(***************************************************************************)
Tokenized == tpc \in {"tokenized", "reconstructed"}

\* what test_tokenizer, line 13, collects of each token
TokenAttrs ==
    [k \in 1..Len(tokens) |->
        Attr(tokens[k].orth, tokens[k].idx, tokens[k].full_shape)]

Offsets == [k \in 1..Len(tokens) |-> tokens[k].idx]

\* the offset right after token k and the whitespace it carries
After(k) == tokens[k].idx + Len(tokens[k].orth) + Len(tokens[k].whitespace)

(***************************************************************************)
(* C11.  reconstruct_text(tokenize(T)) = T for every text T, the empty     *)
(* text and the texts made of whitespace only included, when all tokens    *)
(* are passed.                                                             *)
(***************************************************************************)
C11_RoundTrip == tpc = "reconstructed" => rebuilt = text

C11_Witness ==
    /\ tpc = "reconstructed"
    /\ Len(text) = MaxTextLen
    /\ \A k \in 1..Len(text) : IsSpace(text[k])
    /\ Len(tokens) >= 2
    /\ rebuilt = text

(***************************************************************************)
(* C12, as stated: the tokens are gap-free.  The first token has offset 0, *)
(* each later token starts where the text of the token before it ends, the *)
(* last token ends where the input ends, and the space of "32.4 -32.1" is  *)
(* a token of its own at offset 4.  The unit test expects otherwise: "edu" *)
(* at offset 8 is followed by "32.4" at offset 12.                         *)
(***************************************************************************)
C12_GapFree ==
    Tokenized =>
        /\ tokens # <<>> => tokens[1].idx = 0
        /\ \A k \in 1..(Len(tokens) - 1) :
              tokens[k + 1].idx = tokens[k].idx + Len(tokens[k].orth)
        /\ tokens # <<>> =>
              tokens[Len(tokens)].idx + Len(tokens[Len(tokens)].orth)
                  = Len(text)
        /\ text = ExampleText => Offsets = <<0, 4, 5, 6>>

(***************************************************************************)
(* C12, amended.  The tokens cover the input in order: the first token has *)
(* offset 0, the text of each token is the input at its offset, each later *)
(* token starts where the token before it ends together with the           *)
(* whitespace it carries, and the last token with its whitespace ends      *)
(* where the input ends.  A token carries at most one space and only a     *)
(* token that does not end in whitespace carries one; all other whitespace *)
(* is in tokens of its own.  For "32.4 -32.1" the offsets are 0, 5, 6 and  *)
(* the space at offset 4 is carried by "32.4".                             *)
(***************************************************************************)
C12_CoveredWithCarriedSpace ==
    Tokenized =>
        /\ text # <<>> => tokens # <<>> /\ tokens[1].idx = 0
        /\ \A k \in 1..Len(tokens) :
              /\ tokens[k].orth # <<>>
              /\ tokens[k].orth
                    = SubSeq(text, tokens[k].idx + 1,
                             tokens[k].idx + Len(tokens[k].orth))
              /\ tokens[k].whitespace \in {<<>>, <<" ">>}
              /\ tokens[k].whitespace # <<>> =>
                    /\ ~IsSpace(tokens[k].orth[Len(tokens[k].orth)])
                    /\ text[After(k)] = " "
        /\ \A k \in 1..(Len(tokens) - 1) : tokens[k + 1].idx = After(k)
        /\ tokens # <<>> => After(Len(tokens)) = Len(text)
        /\ text = ExampleText =>
              /\ Offsets = <<0, 5, 6>>
              /\ tokens[1].whitespace = <<" ">>

\* the unit test's text gives the unit test's expected tokens
C12_Witness ==
    /\ tpc = "tokenized"
    /\ text = TestText
    /\ TokenAttrs = TestExpected

(***************************************************************************)
(* Reading a modules directory.                                            *)
(***************************************************************************)
IsModuleFile(f) == f.em_prefix /\ f.py_suffix

\* a file named em_*.py fails to import, or a class of it to instantiate
SomeFileFails(files) ==
    \E k \in 1..Len(files) :
        /\ IsModuleFile(files[k])
        /\ ~files[k].imports \/ BadInit \in Range(files[k].classes)

\* the module classes the files named em_*.py define, in listing order
RECURSIVE OwnClasses(_)
OwnClasses(files) ==
    IF files = <<>> THEN <<>>
    ELSE (IF IsModuleFile(Head(files)) THEN Head(files).classes ELSE <<>>)
             \o OwnClasses(Tail(files))

(***************************************************************************)
(* C13.  Given a directory, the constructor's load_ems either raises       *)
(* NotGetETKModuleError or returns a list that is not empty: it raises     *)
(* when the directory cannot be listed, when a file named em_*.py fails to *)
(* import or a class fails to instantiate, and when the files define no    *)
(* module class; otherwise it returns an instance of every class, none     *)
(* left out.                                                               *)
(***************************************************************************)
C13_LoadsAllOrRaises ==
    (modules.kind = "path" /\ pc \in {"ready", "init_raised"}) =>
        IF ~modules.exists
           \/ SomeFileFails(modules.files)
           \/ OwnClasses(modules.files) = <<>>
        THEN pc = "init_raised" /\ error = "NotGetETKModuleError"
        ELSE /\ Constructed
             /\ em_lst # Undefined
             /\ em_lst # <<>>
             /\ Len(em_lst) = Len(OwnClasses(modules.files))
             /\ Range(em_lst) = Range(OwnClasses(modules.files))

\* a module was loaded from one file before another file failed to import
C13_Witness ==
    /\ pc = "init_raised"
    /\ error = "NotGetETKModuleError"
    /\ modules.kind = "path"
    /\ \E j, k \in 1..Len(modules.files) :
         /\ j < k
         /\ IsModuleFile(modules.files[j])
         /\ modules.files[j].classes # <<>>
         /\ BadInit \notin Range(modules.files[j].classes)
         /\ IsModuleFile(modules.files[k])
         /\ ~modules.files[k].imports

\* the list positions whose selector accepted the document
Accepted == { log[p].em : p \in { q \in Positions("document_selector") : log[q].res } }

(***************************************************************************)
(* C14.  process_ems(doc) returns the pair of the very document it was     *)
(* given and of that document's graph.  The engine writes nothing to the   *)
(* graph itself: the graph returned holds exactly the values the modules   *)
(* wrote, only modules whose selector accepted the document wrote, the     *)
(* writes stand in the order of the modules, and the graph is as it was    *)
(* at the call when no selector accepted the document.                     *)
(***************************************************************************)
C14_ReturnsDocAndItsKg ==
    pc = "returned" =>
        /\ ret.doc = doc
        /\ ret.kg = kg
        /\ kg = WritesLogged
        /\ \A k \in 1..Len(kg) : PosOf(kg[k]) \in Accepted /\ kg[k][3] = doc
        /\ \A k \in 1..Len(kg), l \in 1..Len(kg) :
               k < l => PosOf(kg[k]) <= PosOf(kg[l])
        /\ Accepted = {} => kg = <<>>

\* two modules have written to the graph that was returned
C14_Witness ==
    /\ pc = "returned"
    /\ Cardinality(Accepted) >= 2
    /\ \E k \in 1..Len(ret.kg), l \in 1..Len(ret.kg) :
          ret.kg[k][1] # ret.kg[l][1]

\* the call of process_ems before the current one ended with an exception
PreviousFailed == doc >= 2 /\ outcomes[doc - 1] = "raised"

\* a step in which process_ems ends with an exception
FailingStep == pc # "raised" /\ pc' = "raised"

\* the step leaves the module list, the policy and the cached paths alone
EngineKept ==
    /\ em_lst' = em_lst
    /\ error_policy' = error_policy
    /\ \A q \in DOMAIN parsed :
          Valid(q) => q \in DOMAIN parsed' /\ parsed'[q] = parsed[q]

\* the current call has asked the modules from the first on, in list order,
\* and its graph holds what they wrote for this document and nothing else
ProcessedAfresh ==
    /\ em_lst = built.em_lst
    /\ error_policy = built.error_policy
    /\ \A k \in 1..Len(SelectorOrder) : SelectorOrder[k] = k
    /\ kg = WritesLogged
    /\ \A k \in 1..Len(kg) : kg[k][3] = doc
    /\ pc = "returned" =>
          /\ Len(SelectorOrder) = Len(em_lst)
          /\ ret = ReturnValue(doc, WritesLogged)

(***************************************************************************)
(* C15.  A failure while one document is processed leaves the engine as it *)
(* was for the documents after it: the step that ends process_ems(D1) with *)
(* an exception changes neither the module list nor the error policy nor   *)
(* the cache entries of valid path strings, and a following                *)
(* process_ems(D2) asks the same modules in the same order and yields the  *)
(* graph the modules write for D2, with no value written for D1 in it.     *)
(***************************************************************************)
C15_FailureLeavesEngineIntact ==
    /\ [][FailingStep => EngineKept]_vars
    /\ [](PreviousFailed => ProcessedAfresh)

\* D1 failed after a module had cached a path and written to D1's graph, and
\* process_ems(D2) has returned a graph two modules wrote to
C15_Witness ==
    /\ PreviousFailed
    /\ pc = "returned"
    /\ parsed # EmptyDict
    /\ Cardinality(Accepted) >= 2
    /\ \E k \in 1..Len(ret.kg), l \in 1..Len(ret.kg) :
          ret.kg[k][1] # ret.kg[l][1]

(***************************************************************************)
(* C16.  Whenever the constructor returns normally the module list is      *)
(* defined, the default modules=None included: an engine built without     *)
(* modules has an empty list, and process_ems on it runs no module and     *)
(* returns the document and its graph.  The constructor assigns em_lst     *)
(* only when `modules` is truthy, and process_ems then fails on the        *)
(* attribute.                                                              *)
(***************************************************************************)
C16_ModuleListDefined ==
    Constructed =>
        /\ em_lst # Undefined
        /\ modules.kind = "none" =>
              /\ em_lst = <<>>
              /\ pc # "raised"
              /\ pc = "returned" => ret = ReturnValue(doc, <<>>) /\ log = <<>>


====
